---- MODULE Spec2Model ----
(***************************************************************************)
(* Personal Best Tracker (src/pb_updater.py): the scrape / merge /         *)
(* annotate / render / patch pipeline.                                     *)
(*                                                                         *)
(* Text is modelled as Python models it: a str is a sequence of one-       *)
(* character strings, and every conversion (float(), str.replace,          *)
(* str.split, str.strip) is computed on the characters.  A dict is a       *)
(* function whose domain is its key set.  A float is held in hundredths    *)
(* of a second (an integer): the times of the sources carry at most two    *)
(* decimals, and the only place where binary64 rounding can change a       *)
(* result, the "+ 0.01" tolerance, is modelled by LeqPlusTolerance.        *)
(***************************************************************************)
EXTENDS Integers, Sequences, FiniteSets, TLC

VARIABLES
    pc,                          \* position of the run
    opentrack_pbs,               \* main: opentrack_pbs (value of scrape_opentrack)
    world_athletics_pbs,         \* main: world_athletics_pbs
    merged_pbs,                  \* main: merged_pbs
    _world_athletics_records,    \* scraper._world_athletics_records
    _athletics_malta_records,    \* scraper._athletics_malta_records
    _athletics_malta_positions,  \* scraper._athletics_malta_positions
    widget_rows,                 \* build_widget: the table rows appended to lines
    nr_event_key,                \* is_national_record: argument event_key
    nr_time_val,                 \* is_national_record: argument time_val
    nr_result,                   \* is_national_record: the value returned
    readme_exists,               \* README.md is a file on disk
    readme,                      \* README.md: its text
    readme_before,               \* README.md's text when update_readme was last entered
    widget_content,              \* main: widget_content
    success,                     \* value returned by the last update_readme
    writes,                      \* number of readme_path.write_text calls made
    calls,                       \* number of update_readme calls made
    env_times,                   \* scrape_opentrack: os.getenv('OPENTRACK_PBS')
    playwright_available,        \* PLAYWRIGHT_AVAILABLE
    opentrack_is_dict,           \* main: opentrack_pbs is a dict
    opentrack_gets,              \* GET requests scrape_opentrack made
    opentrack_browser,           \* scrape_opentrack called the browser fetch
    exit_status,                 \* exit status of the process
    net_log,                     \* requests and sleeps made so far, in order
    attempt,                     \* _fetch_with_retry: attempt
    fetch_result,                \* _fetch_with_retry: the value returned
    call_arg,                    \* the argument of the function under call
    call_result                  \* the value that function returned

mergeVars   == <<opentrack_pbs, world_athletics_pbs, merged_pbs>>
scraperVars == <<_world_athletics_records, _athletics_malta_records,
                 _athletics_malta_positions>>
recordVars  == <<nr_event_key, nr_time_val, nr_result>>
readmeVars  == <<readme_exists, readme, readme_before, widget_content, success,
                 writes, calls>>

fetchVars   == <<net_log, attempt, fetch_result>>
callVars    == <<call_arg, call_result>>
runVars     == <<env_times, playwright_available, opentrack_is_dict, opentrack_gets,
                 opentrack_browser, exit_status, fetchVars, callVars>>

vars == <<pc, runVars, mergeVars, scraperVars, widget_rows, recordVars, readmeVars>>

(***************************************************************************)
(* Python text primitives                                                  *)
(***************************************************************************)
Digits == {"0", "1", "2", "3", "4", "5", "6", "7", "8", "9"}

Whitespace == {" ", "\t", "\n"}

\* int(c) of one decimal digit
DigitVal(c) ==
    CASE c = "0" -> 0 [] c = "1" -> 1 [] c = "2" -> 2 [] c = "3" -> 3
      [] c = "4" -> 4 [] c = "5" -> 5 [] c = "6" -> 6 [] c = "7" -> 7
      [] c = "8" -> 8 [] c = "9" -> 9

\* str.isdigit(): non-empty and all digits
IsDigit(s) == s # <<>> /\ \A i \in 1..Len(s) : s[i] \in Digits

\* the value of a (possibly empty) run of decimal digits
RECURSIVE DigitsVal(_)
DigitsVal(s) ==
    IF s = <<>> THEN 0
    ELSE DigitsVal(SubSeq(s, 1, Len(s) - 1)) * 10 + DigitVal(s[Len(s)])

\* c in s, for one character c
HasChar(s, c) == \E i \in 1..Len(s) : s[i] = c

\* s.find(c) + 1 for one character c (0 when absent)
FindChar(s, c) ==
    IF HasChar(s, c)
    THEN CHOOSE i \in 1..Len(s) : s[i] = c /\ \A j \in 1..(i - 1) : s[j] # c
    ELSE 0

\* s.split(c)[0]: the text before the first c
SplitHead(s, c) == IF HasChar(s, c) THEN SubSeq(s, 1, FindChar(s, c) - 1) ELSE s

\* s.split(c, 1)[1], for s containing c: the text after the first c
SplitRest(s, c) == SubSeq(s, FindChar(s, c) + 1, Len(s))

\* len(s.split(c))
SplitCount(s, c) == Cardinality({i \in 1..Len(s) : s[i] = c}) + 1

\* s.replace(c, '') for one character c
RemoveChar(s, c) == SelectSeq(s, LAMBDA x : x # c)

RECURSIVE LStrip(_)
LStrip(s) == IF s # <<>> /\ Head(s) \in Whitespace THEN LStrip(Tail(s)) ELSE s

RECURSIVE RStrip(_)
RStrip(s) ==
    IF s # <<>> /\ s[Len(s)] \in Whitespace
    THEN RStrip(SubSeq(s, 1, Len(s) - 1))
    ELSE s

\* s.strip()
Strip(s) == RStrip(LStrip(s))

\* s.endswith(c) for one character c
EndsWithChar(s, c) == s # <<>> /\ s[Len(s)] = c

(***************************************************************************)
(* Python values: None and exceptions.  An optional value is <<>> (None,   *)
(* or the ValueError that the callers turn into None) or <<v>>.            *)
(***************************************************************************)
None == <<>>

Some(v) == <<v>>

IsNone(o) == o = <<>>

Val(o) == o[1]

\* hundredths held by the digits after the decimal point (two decimals kept:
\* the resolution of the model)
FracHundredths(f) ==
    IF Len(f) = 0 THEN 0
    ELSE IF Len(f) = 1 THEN DigitVal(f[1]) * 10
    ELSE DigitVal(f[1]) * 10 + DigitVal(f[2])

\* float(s) on decimal text: surrounding whitespace, an optional sign, digits
\* with at most one point and at least one digit.  Anything else (a colon,
\* a letter, a second point, the empty text) raises ValueError: None here.
\* The value is in hundredths.
PyFloat(s) ==
    LET u     == Strip(s)
        neg   == u # <<>> /\ Head(u) = "-"
        body  == IF u # <<>> /\ Head(u) \in {"+", "-"} THEN Tail(u) ELSE u
        ip    == SplitHead(body, ".")
        fp    == IF HasChar(body, ".") THEN SplitRest(body, ".") ELSE <<>>
        isnum == /\ \A i \in 1..Len(ip) : ip[i] \in Digits
                 /\ \A i \in 1..Len(fp) : fp[i] \in Digits
                 /\ Len(ip) + Len(fp) >= 1
        mag   == DigitsVal(ip) * 100 + FracHundredths(fp)
    IN  IF isnum THEN Some(IF neg THEN 0 - mag ELSE mag) ELSE None

(***************************************************************************)
(* Configuration (src/pb_updater.py:40-61)                                 *)
(***************************************************************************)
k60    == <<"6", "0", "m">>
k100   == <<"1", "0", "0", "m">>
k200   == <<"2", "0", "0", "m">>
k300   == <<"3", "0", "0", "m">>
k400   == <<"4", "0", "0", "m">>
k800   == <<"8", "0", "0", "m">>
k1500  == <<"1", "5", "0", "0", "m">>
sfxSH  == <<" ", "S", "H">>
sfxIN  == <<" ", "I", "N">>

\* the dict literal {key: value, ...} given as a set of <<key, value>> pairs
Dict(pairs) ==
    [k \in {p[1] : p \in pairs} |-> (CHOOSE p \in pairs : p[1] = k)[2]]

EmptyDict == Dict({})

\* lines 50-58 with no entry
FALLBACK_TIMES_Empty == [k \in {} |-> <<>>]

FALLBACK_TIMES ==
    Dict({ <<k60,           <<"6", ".", "0", "4", "s">>>>,
           <<k60 \o sfxSH,  <<"6", ".", "0", "8", "s">>>>,
           <<k100,          <<"1", "0", ".", "9", "3", "s">>>>,
           <<k200,          <<"2", "1", ".", "1", "8", "s">>>>,
           <<k300,          <<"3", "4", ".", "7", "6", "s">>>>,
           <<k400,          <<"4", "6", ".", "8", "3", "s">>>>,
           <<k200 \o sfxSH, <<"2", "1", ".", "8", "3", "s">>>> })

(***************************************************************************)
(* AthleteicsDataScraper._time_to_seconds                                  *)
(***************************************************************************)
_time_to_seconds(time_text) ==
    LET clean == RemoveChar(Strip(SplitHead(time_text, "(")), "s")
    IN  IF time_text = <<>> \/ clean = <<>> THEN None
        ELSE IF HasChar(clean, ":")
        THEN LET mins == PyFloat(SplitHead(clean, ":"))
                 secs == PyFloat(SplitRest(clean, ":"))
             IN  IF IsNone(mins) \/ IsNone(secs) THEN None
                 ELSE Some(Val(mins) * 60 + Val(secs))
        ELSE IF SplitCount(clean, ".") = 2 THEN PyFloat(clean)
        ELSE IF /\ SplitCount(clean, ".") = 3
                /\ IsDigit(SplitHead(clean, "."))
                /\ IsDigit(SplitHead(SplitRest(clean, "."), "."))
                /\ IsDigit(SplitRest(SplitRest(clean, "."), "."))
        THEN Some(DigitsVal(SplitHead(clean, ".")) * 6000
                  + Val(PyFloat(SplitRest(clean, "."))))
        ELSE PyFloat(clean)

(***************************************************************************)
(* AthleteicsDataScraper.merge_times                                       *)
(***************************************************************************)
\* "if new < current" under the try of lines 713-719: either float() raising
\* ValueError leaves the entry as it is
NewIsFaster(time_val, held) ==
    LET current == PyFloat(RemoveChar(held, "s"))
        new     == PyFloat(RemoveChar(time_val, "s"))
    IN  ~IsNone(current) /\ ~IsNone(new) /\ Val(new) < Val(current)

\* the inner loop of lines 708-719 over one source
MergeSource(merged, source_pbs) ==
    [event_key \in DOMAIN merged \cup DOMAIN source_pbs |->
        IF event_key \notin DOMAIN merged THEN source_pbs[event_key]
        ELSE IF event_key \notin DOMAIN source_pbs THEN merged[event_key]
        ELSE IF NewIsFaster(source_pbs[event_key], merged[event_key])
             THEN source_pbs[event_key]
             ELSE merged[event_key]]

merge_times(opentrack, world) == MergeSource(MergeSource(EmptyDict, opentrack), world)

(***************************************************************************)
(* Configuration: NATIONAL_RECORDS (the "time" of each entry, lines 44-47) *)
(* and EVENT_ORDER (line 61)                                               *)
(***************************************************************************)
NATIONAL_RECORDS ==
    Dict({ <<k200, <<"2", "1", ".", "1", "8", "s">>>>,
           <<k300, <<"3", "4", ".", "4", "2", "s">>>> })

EVENT_ORDER == <<k60, k100, k200, k300, k400, k800, k1500>>

(***************************************************************************)
(* AthleteicsDataScraper.is_national_record                                *)
(***************************************************************************)
\* event_key.split()[0]: the first run of characters that are not whitespace
FirstWord(s) ==
    LET t == LStrip(s)
    IN  IF \E i \in 1..Len(t) : t[i] \in Whitespace
        THEN SubSeq(t, 1, (CHOOSE i \in 1..Len(t) :
                              /\ t[i] \in Whitespace
                              /\ \A j \in 1..(i - 1) : t[j] \notin Whitespace) - 1)
        ELSE t

\* line 735: event_key.split()[0] if ' ' in event_key else event_key
BaseEvent(key) == IF HasChar(key, " ") THEN FirstWord(key) ELSE key

\* The hundredths r, between 5.90s and 7.00s and between 34.30s and 34.50s,
\* for which the binary64 sum float(r/100) + 0.01 is below float((r+1)/100).
\* No r between 16.00s and 32.00s is one.  The records the model draws lie
\* in these three ranges or are matched away from the tolerance boundary.
ToleranceRoundsDown ==
    { 593, 597, 602, 606, 610, 614, 618, 622, 627, 631, 635, 639, 643, 647,
      652, 656, 660, 664, 668, 672, 677, 681, 685, 689, 693, 697,
      3430, 3433, 3437, 3441, 3444, 3448 }

\* "<=" without the tolerance
LeqNoTolerance(current_time, record_time) == current_time <= record_time

\* lines 745 and 754: current_time <= record_time + 0.01, in binary64
LeqPlusTolerance(current_time, record_time) ==
    \/ current_time < record_time + 1
    \/ current_time = record_time + 1 /\ record_time \notin ToleranceRoundsDown

\* dict.get(key) or dict.get(other): the first of the two that is a
\* non-empty text, else None
GetOr(d, key, other) ==
    IF key \in DOMAIN d /\ d[key] # <<>> THEN Some(d[key])
    ELSE IF other \in DOMAIN d /\ d[other] # <<>> THEN Some(d[other])
    ELSE None

is_national_record(key, time) ==
    LET base_event   == BaseEvent(key)
        current_time == _time_to_seconds(time)
        curated_time == _time_to_seconds(NATIONAL_RECORDS[base_event])
        athletics_record == GetOr(_athletics_malta_records, key, base_event)
        athletics_time   == _time_to_seconds(Val(athletics_record))
    IN  IF IsNone(current_time) THEN FALSE
        ELSE IF /\ base_event \in DOMAIN NATIONAL_RECORDS
                /\ ~IsNone(curated_time)
                /\ LeqPlusTolerance(Val(current_time), Val(curated_time))
        THEN TRUE
        ELSE IF /\ ~IsNone(athletics_record)
                /\ ~IsNone(athletics_time)
                /\ LeqPlusTolerance(Val(current_time), Val(athletics_time))
        THEN TRUE
        ELSE FALSE

(***************************************************************************)
(* build_widget                                                            *)
(***************************************************************************)
\* the suffix chosen on the last digit alone
ordinal_LastDigit(rank) ==
    IF rank % 10 = 1 THEN <<rank, "st">>
    ELSE IF rank % 10 = 2 THEN <<rank, "nd">>
    ELSE IF rank % 10 = 3 THEN <<rank, "rd">>
    ELSE <<rank, "th">>

\* ordinal(rank), lines 774-779: the rank and its suffix
ordinal(rank) ==
    IF 10 <= rank % 100 /\ rank % 100 <= 20 THEN <<rank, "th">>
    ELSE IF rank % 10 = 1 THEN <<rank, "st">>
    ELSE IF rank % 10 = 2 THEN <<rank, "nd">>
    ELSE IF rank % 10 = 3 THEN <<rank, "rd">>
    ELSE <<rank, "th">>

\* the status texts: "NR" (with its red mark), "{ordinal} All-Time" and "-",
\* each as <<text, rank, suffix>>
StatusNR == <<"NR", 0, "">>

StatusNone == <<"-", 0, "">>

StatusAllTime(rank) == <<"All-Time", ordinal(rank)[1], ordinal(rank)[2]>>

\* the row's status decided on the ranking alone
RowStatus_RankFirst(key, time) ==
    IF key \in DOMAIN _athletics_malta_positions /\ _athletics_malta_positions[key] # 0
    THEN StatusAllTime(_athletics_malta_positions[key])
    ELSE IF is_national_record(key, time) \/ key \in DOMAIN _world_athletics_records
    THEN StatusNR
    ELSE StatusNone

\* the row's status with the World Athletics flag left out
RowStatus_NoFlag(key, time) ==
    IF is_national_record(key, time) THEN StatusNR
    ELSE IF key \in DOMAIN _athletics_malta_positions /\ _athletics_malta_positions[key] # 0
    THEN StatusAllTime(_athletics_malta_positions[key])
    ELSE StatusNone

\* lines 796-801 (and 810-815, 823-828): is_nr, then the rank, then "-";
\* "if rank" is false for None and for 0
RowStatus(key, time) ==
    IF is_national_record(key, time) \/ key \in DOMAIN _world_athletics_records
    THEN StatusNR
    ELSE IF key \in DOMAIN _athletics_malta_positions /\ _athletics_malta_positions[key] # 0
    THEN StatusAllTime(_athletics_malta_positions[key])
    ELSE StatusNone

\* ord(c) order of the characters of event keys and times
AsciiOrder ==
    << "\t", "\n", " ", "(", ")", "+", "-", ".",
       "0", "1", "2", "3", "4", "5", "6", "7", "8", "9", ":",
       "H", "I", "N", "S", "m", "s" >>

Ord(c) == CHOOSE i \in 1..Len(AsciiOrder) : AsciiOrder[i] = c

\* a < b on str: at the first difference the smaller character, else the
\* shorter text
StrLess(a, b) ==
    \/ \E i \in 1..Len(a) :
          /\ i <= Len(b)
          /\ \A j \in 1..(i - 1) : a[j] = b[j]
          /\ Ord(a[i]) < Ord(b[i])
    \/ Len(a) < Len(b) /\ \A j \in 1..Len(a) : a[j] = b[j]

\* sorted(keys)
RECURSIVE Sorted(_)
Sorted(keys) ==
    IF keys = {} THEN <<>>
    ELSE LET least == CHOOSE k \in keys : \A o \in keys \ {k} : StrLess(k, o)
         IN  <<least>> \o Sorted(keys \ {least})

Range(seq) == {seq[i] : i \in 1..Len(seq)}

\* s.startswith(prefix)
StartsWith(s, prefix) ==
    Len(prefix) <= Len(s) /\ SubSeq(s, 1, Len(prefix)) = prefix

\* the first pass, lines 791-817, from EVENT_ORDER[i] on: displayed holds the
\* keys of the rows appended so far, in order
RECURSIVE FirstPass(_, _, _)
FirstPass(pbs, i, displayed) ==
    IF i > Len(EVENT_ORDER) THEN displayed
    ELSE LET event    == EVENT_ORDER[i]
             withBase == IF event \in DOMAIN pbs /\ event \notin Range(displayed)
                         THEN Append(displayed, event)
                         ELSE displayed
             variants == SelectSeq(Sorted(DOMAIN pbs),
                            LAMBDA k : /\ StartsWith(k, event \o <<" ">>)
                                       /\ k \notin Range(withBase))
         IN  FirstPass(pbs, i + 1, withBase \o variants)

\* lines 820-830 left out
SecondPass_Skipped(pbs, displayed) == displayed

\* the second pass, lines 820-830
SecondPass(pbs, displayed) ==
    displayed \o SelectSeq(Sorted(DOMAIN pbs), LAMBDA k : k \notin Range(displayed))

\* the keys of the rows in the order build_widget appends them
DisplayOrder(pbs) == SecondPass(pbs, FirstPass(pbs, 1, <<>>))

\* the table rows of build_widget(pbs, world_athletics_records, scraper):
\* | event | time | status |
build_widget(pbs) ==
    LET order == DisplayOrder(pbs)
    IN  [i \in 1..Len(order) |->
            <<order[i], pbs[order[i]], RowStatus(order[i], pbs[order[i]])>>]

(***************************************************************************)
(* update_readme.  README.md is a sequence of pieces: a piece is one of    *)
(* the two marker comments or one character of other text (which holds no  *)
(* part of a marker), so str.split(tag) and "tag in content" act on the    *)
(* pieces as they act on the characters.                                   *)
(***************************************************************************)
start_tag == "<!-- START_PB -->"

end_tag == "<!-- END_PB -->"

\* the check of line 854 failing only when both markers are absent
TagsMissing_BothAbsent(content) ==
    ~HasChar(content, start_tag) /\ ~HasChar(content, end_tag)

\* line 854: start_tag not in content or end_tag not in content
TagsMissing(content) == ~HasChar(content, start_tag) \/ ~HasChar(content, end_tag)

\* content.split(end_tag)[1]: the text between the first and the second
\* end_tag (or the end of the text)
SplitSecond(content, tag) == SplitHead(SplitRest(content, tag), tag)

\* lines 863-865: the text written back
UpdatedContent(content, widget) ==
    LET before == SplitHead(content, start_tag)
        after  == SplitSecond(content, end_tag)
    IN  before \o <<start_tag, "\n">> \o widget \o <<"\n", end_tag>> \o after

\* one call update_readme(widget_content)
update_readme ==
    /\ calls' = calls + 1
    /\ readme_before' = readme
    /\ IF ~readme_exists \/ TagsMissing(readme)
       THEN /\ success' = FALSE
            /\ UNCHANGED <<readme, writes>>
       ELSE /\ readme' = UpdatedContent(readme, widget_content)
            /\ writes' = writes + 1
            /\ success' = TRUE
    /\ UNCHANGED <<readme_exists, widget_content>>

(***************************************************************************)
(* More Python text primitives                                             *)
(***************************************************************************)
\* s.replace(a, b) for characters a and b
ReplaceChar(s, a, b) == [i \in 1..Len(s) |-> IF s[i] = a THEN b ELSE s[i]]

UpperLetters == <<"A", "B", "C", "D", "E", "F", "G", "H", "I", "J", "K", "L", "M", "N", "O", "P", "Q", "R", "S", "T", "U", "V", "W", "X", "Y", "Z">>

LowerLetters == <<"a", "b", "c", "d", "e", "f", "g", "h", "i", "j", "k", "l", "m", "n", "o", "p", "q", "r", "s", "t", "u", "v", "w", "x", "y", "z">>

\* s.lower()
Lower(s) ==
    [i \in 1..Len(s) |->
        IF \E n \in 1..26 : UpperLetters[n] = s[i]
        THEN LowerLetters[CHOOSE n \in 1..26 : UpperLetters[n] = s[i]]
        ELSE s[i]]

\* sub in s
Contains(s, sub) ==
    \E i \in 1..(Len(s) - Len(sub) + 1) : SubSeq(s, i, i + Len(sub) - 1) = sub

\* the end of the run of digits that starts at s[i]
DigitRunEnd(s, i) ==
    CHOOSE j \in i..Len(s) :
        /\ \A k \in i..j : s[k] \in Digits
        /\ (j = Len(s) \/ s[j + 1] \notin Digits)

\* the first place after s[j] that holds no whitespace
SkipSpace(s, j) ==
    CHOOSE n \in (j + 1)..(Len(s) + 1) :
        /\ \A k \in (j + 1)..(n - 1) : s[k] \in Whitespace
        /\ (n = Len(s) + 1 \/ s[n] \notin Whitespace)

\* s[n:] starts with word
WordAt(s, n, word) ==
    n + Len(word) - 1 <= Len(s) /\ SubSeq(s, n, n + Len(word) - 1) = word

TARGET_EVENTS == << <<"6", "0">>, <<"1", "0", "0">>, <<"2", "0", "0">>, <<"3", "0", "0">>, <<"4", "0", "0">>, <<"8", "0", "0">>, <<"1", "5", "0", "0">> >>

(***************************************************************************)
(* AthleteicsDataScraper.parse_time                                        *)
(***************************************************************************)
parse_time(time_text) ==
    LET time_clean == Strip(SplitHead(time_text, "("))
        components == SplitCount(ReplaceChar(time_clean, ":", "."), ".")
    IN  IF /\ time_text # <<>>
           /\ time_clean # <<>>
           /\ components >= 2
           /\ ~IsNone(PyFloat(RemoveChar(time_clean, ":")))
        THEN Some(IF EndsWithChar(time_clean, "s") THEN time_clean
                  ELSE Append(time_clean, "s"))
        ELSE None

(***************************************************************************)
(* scrape_opentrack, lines 282-318: the rows of the performances table     *)
(* after its two header rows; a row is the sequence of its cell texts      *)
(***************************************************************************)
\* lines 295-299: the key of an event code of TARGET_EVENTS, else None
OpenTrackEvent(event_text) ==
    IF \E n \in 1..Len(TARGET_EVENTS) : Strip(event_text) = TARGET_EVENTS[n]
    THEN Some(Strip(event_text) \o <<"m">>)
    ELSE None

OpenTrackRow(pbs, cells) ==
    IF Len(cells) < 2 THEN pbs
    ELSE LET event_text == Strip(cells[1])
             perf_text  == Strip(cells[2])
             key        == OpenTrackEvent(event_text)
             time_value == parse_time(perf_text)
         IN  IF perf_text = <<>> \/ IsNone(time_value) THEN pbs
             ELSE IF IsNone(key) THEN pbs
             ELSE IF Val(key) \in DOMAIN pbs
             THEN IF NewIsFaster(Val(time_value), pbs[Val(key)])
                  THEN [pbs EXCEPT ![Val(key)] = Val(time_value)]
                  ELSE pbs
             ELSE [k \in DOMAIN pbs \cup {Val(key)} |->
                      IF k = Val(key) THEN Val(time_value) ELSE pbs[k]]

RECURSIVE OpenTrackRows(_, _)
OpenTrackRows(pbs, rows) ==
    IF rows = <<>> THEN pbs
    ELSE OpenTrackRows(OpenTrackRow(pbs, Head(rows)), Tail(rows))

(***************************************************************************)
(* AthleteicsDataScraper._parse_world_athletics_event                      *)
(***************************************************************************)
\* lines 671-674 and 684-687: the variant suffix
VariantSuffix(discipline_lower) ==
    IF Contains(discipline_lower, <<"s", "h", "o", "r", "t", " ", "t", "r", "a", "c", "k">>) THEN sfxSH
    ELSE IF Contains(discipline_lower, <<"i", "n", "d", "o", "o", "r">>) THEN sfxIN
    ELSE <<>>

\* re.search(r'(\d+)\s*(?:metre|meter)', s): the places where a match starts
MetreMatches(s) ==
    {i \in 1..Len(s) :
        /\ s[i] \in Digits
        /\ LET n == SkipSpace(s, DigitRunEnd(s, i))
           IN  WordAt(s, n, <<"m", "e", "t", "r", "e">>) \/ WordAt(s, n, <<"m", "e", "t", "e", "r">>)}

_parse_world_athletics_event(discipline) ==
    LET discipline_lower == Lower(discipline)
        targets == {n \in 1..Len(TARGET_EVENTS) :
                       Contains(discipline_lower, TARGET_EVENTS[n] \o <<" ", "m", "e", "t", "r", "e">>)}
        first   == CHOOSE n \in targets : \A o \in targets : n <= o
        start   == CHOOSE i \in MetreMatches(discipline_lower) :
                       \A o \in MetreMatches(discipline_lower) : i <= o
        dist    == SubSeq(discipline_lower, start, DigitRunEnd(discipline_lower, start))
    IN  IF Contains(discipline_lower, <<"r", "e", "l", "a", "y">>) THEN None
        ELSE IF targets # {}
        THEN Some(TARGET_EVENTS[first] \o <<"m">> \o VariantSuffix(discipline_lower))
        ELSE IF MetreMatches(discipline_lower) # {}
        THEN Some(dist \o <<"m">> \o VariantSuffix(discipline_lower))
        ELSE None

(***************************************************************************)
(* scrape_world_athletics, lines 366-393: the "results" of the embedded    *)
(* JSON; a result is <<mark, discipline, records>> with records the set of *)
(* its labels.  The value is <<pbs, flags>>.                               *)
(***************************************************************************)
WorldAthleticsResult(acc, result) ==
    LET mark       == result[1]
        discipline == result[2]
        records    == result[3]
        key        == _parse_world_athletics_event(discipline)
        time_value == IF EndsWithChar(mark, "s") THEN mark ELSE Append(mark, "s")
        pbs        == acc[1]
        flags      == acc[2]
    IN  IF mark = <<>> \/ discipline = <<>> THEN acc
        ELSE IF IsNone(key) THEN acc
        ELSE << [k \in DOMAIN pbs \cup {Val(key)} |->
                    IF k = Val(key) THEN time_value ELSE pbs[k]],
                IF "NR" \in records
                THEN [k \in DOMAIN flags \cup {Val(key)} |-> TRUE]
                ELSE flags >>

RECURSIVE WorldAthleticsResults(_, _)
WorldAthleticsResults(acc, results) ==
    IF results = <<>> THEN acc
    ELSE WorldAthleticsResults(WorldAthleticsResult(acc, Head(results)), Tail(results))

(***************************************************************************)
(* AthleteicsDataScraper._event_from_athletics_malta                       *)
(***************************************************************************)
\* re.match(r'^(\d+)\s*x\s*\d+m$', text)
IsRelayLegs(text) ==
    /\ text # <<>>
    /\ text[1] \in Digits
    /\ LET x == SkipSpace(text, DigitRunEnd(text, 1))
       IN  /\ WordAt(text, x, <<"x">>)
           /\ LET d == SkipSpace(text, x)
              IN  /\ d <= Len(text)
                  /\ text[d] \in Digits
                  /\ DigitRunEnd(text, d) + 1 = Len(text)
                  /\ text[Len(text)] = "m"

\* re.match(r'^(\d+)\s*m(?:etres?)?$', text)
IsDistanceText(text) ==
    /\ text # <<>>
    /\ text[1] \in Digits
    /\ LET unit == SubSeq(text, SkipSpace(text, DigitRunEnd(text, 1)), Len(text))
       IN  unit \in { <<"m">>, <<"m", "e", "t", "r", "e">>, <<"m", "e", "t", "r", "e", "s">> }

_event_from_athletics_malta(event_name) ==
    LET text == Lower(Strip(event_name))
        dist == SubSeq(text, 1, DigitRunEnd(text, 1))
    IN  IF text = <<>> THEN None
        ELSE IF \/ Contains(text, <<"r", "e", "l", "a", "y">>)
                \/ Contains(text, <<"h", "u", "r", "d", "l", "e">>)
                \/ Contains(text, <<"w", "a", "l", "k">>)
        THEN None
        ELSE IF IsRelayLegs(text) THEN None
        ELSE IF ~IsDistanceText(text) THEN None
        ELSE IF ~(\E n \in 1..Len(TARGET_EVENTS) : TARGET_EVENTS[n] = dist) THEN None
        ELSE Some(dist \o <<"m">> \o
                  (IF Contains(text, <<"s", "h", "o", "r", "t", " ", "t", "r", "a", "c", "k">>) \/ Contains(text, <<"i", "n", "d", "o", "o", "r">>)
                   THEN sfxSH ELSE <<>>))

(***************************************************************************)
(* _parse_athletics_malta_records_soup: the rows of the page; a row is the *)
(* sequence of its cell texts                                              *)
(***************************************************************************)
MaltaRecordsRow(records, cells) ==
    IF Len(cells) < 4 THEN records
    ELSE LET time_text     == Strip(cells[2])
             event_text    == Strip(cells[4])
             key           == _event_from_athletics_malta(event_text)
             event_seconds == _time_to_seconds(time_text)
             normalized_time == IF EndsWithChar(time_text, "s") THEN time_text
                                ELSE Append(time_text, "s")
         IN  IF IsNone(key) THEN records
             ELSE IF IsNone(event_seconds) THEN records
             ELSE IF Val(key) \notin DOMAIN records
             THEN [k \in DOMAIN records \cup {Val(key)} |->
                      IF k = Val(key) THEN normalized_time ELSE records[k]]
             ELSE IF /\ ~IsNone(_time_to_seconds(records[Val(key)]))
                     /\ Val(event_seconds) < Val(_time_to_seconds(records[Val(key)]))
             THEN [records EXCEPT ![Val(key)] = normalized_time]
             ELSE records

RECURSIVE MaltaRecordsRows(_, _)
MaltaRecordsRows(records, rows) ==
    IF rows = <<>> THEN records
    ELSE MaltaRecordsRows(MaltaRecordsRow(records, Head(rows)), Tail(rows))

(***************************************************************************)
(* The values of the variables a specification does not use               *)
(***************************************************************************)
MergeIdle ==
    /\ opentrack_pbs = EmptyDict
    /\ world_athletics_pbs = EmptyDict
    /\ merged_pbs = EmptyDict

ScraperIdle ==
    /\ _world_athletics_records = EmptyDict
    /\ _athletics_malta_records = EmptyDict
    /\ _athletics_malta_positions = EmptyDict

RecordIdle ==
    /\ nr_event_key = <<>>
    /\ nr_time_val = <<>>
    /\ nr_result = FALSE

CallIdle ==
    /\ call_arg = <<>>
    /\ call_result = <<>>

FetchIdle ==
    /\ net_log = <<>>
    /\ attempt = 0
    /\ fetch_result = "pending"

RunIdle ==
    /\ FetchIdle
    /\ CallIdle
    /\ env_times = [kind |-> "unset", value |-> EmptyDict]
    /\ playwright_available = FALSE
    /\ opentrack_is_dict = TRUE
    /\ opentrack_gets = 0
    /\ opentrack_browser = FALSE
    /\ exit_status = "running"

ReadmeIdle ==
    /\ readme_exists = FALSE
    /\ readme = <<>>
    /\ readme_before = <<>>
    /\ widget_content = <<>>
    /\ success = FALSE
    /\ writes = 0
    /\ calls = 0

(***************************************************************************)
(* Input texts                                                             *)
(***************************************************************************)
\* every dict with at most n entries, keys from K and values from V
Tables(K, V, n) ==
    UNION { [D -> V] : D \in {S \in SUBSET K : Cardinality(S) <= n} }

\* every sequence over S of length at most n
SeqsUpTo(S, n) == UNION {[1..m -> S] : m \in 0..n}

DigitChar(d) == <<"0", "1", "2", "3", "4", "5", "6", "7", "8", "9">>[d + 1]

\* the decimal digits of a natural number
RECURSIVE NatText(_)
NatText(n) ==
    IF n < 10 THEN <<DigitChar(n)>>
    ELSE NatText(n \div 10) \o <<DigitChar(n % 10)>>

\* the time text "S.hhs" of a number of hundredths
FormatSeconds(h) ==
    NatText(h \div 100) \o <<".", DigitChar((h % 100) \div 10), DigitChar(h % 10), "s">>

(***************************************************************************)
(* SpecMerge: merge_times called on a pair of PB tables, with times in     *)
(* seconds form and in minutes:seconds form                                *)
(***************************************************************************)
MaxEntries == 2

MergeKeys == {k100, k800, k800 \o sfxSH}

MergeTimes ==
    { <<"1", "1", ".", "0", "0", "s">>,
      <<"1", "0", ".", "9", "0", "s">>,
      <<"1", ":", "5", "5", ".", "0", "0", "s">>,
      <<"1", ":", "5", "2", ".", "3", "0", "s">> }

InitMerge ==
    /\ RunIdle
    /\ pc = "merge_call"
    /\ opentrack_pbs \in Tables(MergeKeys, MergeTimes, MaxEntries)
    /\ world_athletics_pbs \in Tables(MergeKeys, MergeTimes, MaxEntries)
    /\ merged_pbs = EmptyDict
    /\ ScraperIdle
    /\ widget_rows = <<>>
    /\ RecordIdle
    /\ ReadmeIdle

MergeCall ==
    /\ pc = "merge_call"
    /\ merged_pbs' = merge_times(opentrack_pbs, world_athletics_pbs)
    /\ pc' = "merge_returned"
    /\ UNCHANGED <<runVars, opentrack_pbs, world_athletics_pbs, scraperVars,
                   widget_rows, recordVars, readmeVars>>

NextMerge == MergeCall

SpecMerge == InitMerge /\ [][NextMerge]_vars

(***************************************************************************)
(* SpecReadme: update_readme called repeatedly with one widget on a        *)
(* README.md drawn from every text of a few pieces                         *)
(***************************************************************************)
MaxReadmeLen == 4

MaxWidgetLen == 2

MaxCalls == 2

ReadmePieces == {start_tag, end_tag, "x"}

InitReadme ==
    /\ RunIdle
    /\ pc = "readme_call"
    /\ readme_exists \in BOOLEAN
    /\ readme \in SeqsUpTo(ReadmePieces, MaxReadmeLen)
    /\ readme_exists = FALSE => readme = <<>>
    /\ readme_before = <<>>
    /\ widget_content \in SeqsUpTo({"w"}, MaxWidgetLen) \ {<<>>}
    /\ success = FALSE
    /\ writes = 0
    /\ calls = 0
    /\ MergeIdle
    /\ ScraperIdle
    /\ widget_rows = <<>>
    /\ RecordIdle

UpdateReadmeCall ==
    /\ pc = "readme_call"
    /\ calls < MaxCalls
    /\ update_readme
    /\ UNCHANGED <<pc, runVars, mergeVars, scraperVars, widget_rows, recordVars>>

NextReadme == UpdateReadmeCall

SpecReadme == InitReadme /\ [][NextReadme]_vars

(***************************************************************************)
(* SpecRecord: is_national_record called on an event key and a time around *)
(* the curated records                                                     *)
(***************************************************************************)
Spread == 3

\* the curated records in hundredths: 21.18s and 34.42s
Curated200 == 2118

Curated300 == 3442

RecordKeys == {k200, k200 \o sfxSH, k200 \o sfxIN, k300, k300 \o sfxSH, k100}

RecordHundredths ==
    {Curated200 + d : d \in (0 - Spread)..Spread}
        \cup {Curated300 + d : d \in (0 - Spread)..Spread}

RecordScraped ==
    { EmptyDict,
      Dict({<<k100, <<"1", "0", ".", "2", "6", "s">>>>}),
      Dict({<<k200, <<"2", "1", ".", "3", "0", "s">>>>}) }

InitRecord ==
    /\ RunIdle
    /\ pc = "nr_call"
    /\ nr_event_key \in RecordKeys
    /\ nr_time_val \in {FormatSeconds(h) : h \in RecordHundredths}
    /\ nr_result = FALSE
    /\ _athletics_malta_records \in RecordScraped
    /\ _world_athletics_records = EmptyDict
    /\ _athletics_malta_positions = EmptyDict
    /\ MergeIdle
    /\ widget_rows = <<>>
    /\ ReadmeIdle

IsNationalRecordCall ==
    /\ pc = "nr_call"
    /\ nr_result' = is_national_record(nr_event_key, nr_time_val)
    /\ pc' = "nr_returned"
    /\ UNCHANGED <<runVars, nr_event_key, nr_time_val, mergeVars, scraperVars,
                   widget_rows, readmeVars>>

NextRecord == IsNationalRecordCall

SpecRecord == InitRecord /\ [][NextRecord]_vars

(***************************************************************************)
(* SpecWidget: build_widget called on the state the pipeline hands it: the *)
(* merged table (a World Athletics table merged with FALLBACK_TIMES), the  *)
(* flags World Athletics set on keys of its table, the scraped records and *)
(* the ranking positions                                                   *)
(***************************************************************************)
MaxScraped == 1

MaxRecords == 1

MaxRanked == 1

MaxRank == 2

\* the marks World Athletics may hold, by event key
WidgetScraped ==
    Dict({ <<k60, <<"6", ".", "0", "3", "s">>>>,
           <<k200 \o sfxSH, <<"2", "1", ".", "1", "9", "s">>>>,
           <<k800, <<"1", ":", "5", "2", ".", "3", "0", "s">>>> })

WidgetRecordKeys == {k60, k100}

WidgetRecordTimes ==
    { <<"6", ".", "0", "2", "s">>,
      <<"1", "0", ".", "9", "3", "s">>,
      <<"1", "0", ".", "2", "6", "s">> }

WidgetRankedKeys == {k60, k100, k60 \o sfxSH}

InitWidget ==
    /\ RunIdle
    /\ pc = "widget_call"
    /\ opentrack_pbs = EmptyDict
    /\ world_athletics_pbs \in
           {[k \in D |-> WidgetScraped[k]] :
               D \in {S \in SUBSET DOMAIN WidgetScraped : Cardinality(S) <= MaxScraped}}
    /\ merged_pbs = merge_times(merge_times(opentrack_pbs, world_athletics_pbs),
                                FALLBACK_TIMES)
    /\ _world_athletics_records \in
           {[k \in D |-> TRUE] : D \in SUBSET DOMAIN world_athletics_pbs}
    /\ _athletics_malta_records \in
           Tables(WidgetRecordKeys, WidgetRecordTimes, MaxRecords)
    /\ _athletics_malta_positions \in Tables(WidgetRankedKeys, 0..MaxRank, MaxRanked)
    /\ widget_rows = <<>>
    /\ RecordIdle
    /\ ReadmeIdle

BuildWidgetCall ==
    /\ pc = "widget_call"
    /\ widget_rows' = build_widget(merged_pbs)
    /\ pc' = "widget_built"
    /\ UNCHANGED <<runVars, mergeVars, scraperVars, recordVars, readmeVars>>

NextWidget == BuildWidgetCall

SpecWidget == InitWidget /\ [][NextWidget]_vars

(***************************************************************************)
(* Spec: one run of main.  The environment (the override value, whether    *)
(* Playwright is installed, README.md) is fixed at the start; every        *)
(* scraper step draws the outcome of its fetches and the page it gets.     *)
(***************************************************************************)
\* _fetch_with_retry: the outcomes of at most max_retries GET requests; the
\* response is returned by the first request that succeeds
max_retries == 3

_fetch_with_retry ==
    {[gets |-> n, ok |-> TRUE] : n \in 1..max_retries}
        \cup {[gets |-> max_retries, ok |-> FALSE]}

\* os.getenv('OPENTRACK_PBS') and what json.loads makes of it: "unset"
\* (None), "empty" (''), "invalid" (JSONDecodeError), "object" (a dict, held
\* in value), "sized" (a list or a string), "unsized" (null, a number, a
\* boolean)
EnvKinds == {"unset", "empty", "invalid", "object", "sized", "unsized"}

OverrideTables ==
    { EmptyDict,
      Dict({<<k200, <<"2", "1", ".", "1", "0", "s">>>>,
            <<<<"2", "0", "0">>, <<"2", "1", ".", "5", "0", "s">>>>}),
      Dict({<<<<" ">>, <<"1", "s">>>>}) }

EnvValues ==
    {[kind |-> k, value |-> EmptyDict] : k \in EnvKinds \ {"object"}}
        \cup {[kind |-> "object", value |-> t] : t \in OverrideTables}

\* lines 228-234, json.loads raised JSONDecodeError on every text
OverrideLoaded_WhenSet(env) == env.kind \notin {"unset", "empty"}

\* lines 228-234: env_times is truthy and json.loads(env_times) did not raise
OverrideLoaded(env) == env.kind \in {"object", "sized", "unsized"}

\* the OpenTrack page: whether it holds a performances table, and the rows
\* of that table after the two header rows
OpenTrackPages ==
    { [perf_table |-> FALSE, rows |-> <<>>],
      [perf_table |-> TRUE, rows |-> <<>>],
      [perf_table |-> TRUE, rows |-> << <<<<"2", "0", "0">>, <<"2", "1", ".", "1", "0", " ", "(", "+", "1", ".", "3", ")">>>> >>],
      [perf_table |-> TRUE, rows |-> << <<<<"8", "0", "0">>, <<"1", ":", "5", "2", ".", "3", "0">>>>,
                                        <<<<"8", "0", "0">>, <<"1", ":", "5", "1", ".", "0", "0">>>> >>],
      [perf_table |-> TRUE, rows |-> << <<<<"L", "J">>, <<"7", ".", "0", "1">>>>,
                                        <<<<"2", "0", "0">>, <<"N", "M">>>>,
                                        <<<<"2", "0", "2", "4">>>> >>] }

\* lines 259-324
ParseOpenTrack(page) ==
    IF ~page.perf_table THEN EmptyDict ELSE OpenTrackRows(EmptyDict, page.rows)

scrape_opentrack ==
    IF OverrideLoaded(env_times)
    THEN /\ opentrack_gets' = 0
         /\ opentrack_browser' = FALSE
         /\ IF env_times.kind = "unsized"
            THEN \* len(pbs) raises TypeError, which nothing catches
                 /\ pc' = "crashed"
                 /\ exit_status' = "1"
                 /\ UNCHANGED <<opentrack_pbs, opentrack_is_dict>>
            ELSE /\ opentrack_pbs' = env_times.value
                 /\ opentrack_is_dict' = (env_times.kind = "object")
                 /\ pc' = "scrape_world_athletics"
                 /\ UNCHANGED exit_status
    ELSE /\ \E response \in _fetch_with_retry :
            /\ opentrack_gets' = response.gets
            /\ IF response.ok
               THEN /\ opentrack_browser' = FALSE
                    /\ \E page \in OpenTrackPages :
                           opentrack_pbs' = ParseOpenTrack(page)
               ELSE IF playwright_available
               THEN /\ opentrack_browser' = TRUE
                    /\ \/ opentrack_pbs' = EmptyDict
                       \/ \E page \in OpenTrackPages :
                              opentrack_pbs' = ParseOpenTrack(page)
               ELSE /\ opentrack_browser' = FALSE
                    /\ opentrack_pbs' = EmptyDict
         /\ opentrack_is_dict' = TRUE
         /\ pc' = "scrape_world_athletics"
         /\ UNCHANGED exit_status

ScrapeOpenTrack ==
    /\ pc = "scrape_opentrack"
    /\ scrape_opentrack
    /\ UNCHANGED <<callVars, fetchVars, env_times, playwright_available, world_athletics_pbs, merged_pbs,
                   scraperVars, widget_rows, recordVars, readmeVars>>

\* the World Athletics page: whether a script holds the competitor data,
\* and the "results" of its personal bests
WorldAthleticsPages ==
    { [data |-> FALSE, results |-> <<>>],
      [data |-> TRUE, results |-> <<>>],
      [data |-> TRUE, results |-> << <<<<"2", "1", ".", "1", "9">>, <<"2", "0", "0", " ", "M", "e", "t", "r", "e", "s", " ", "S", "h", "o", "r", "t", " ", "T", "r", "a", "c", "k">>, {}>> >>],
      [data |-> TRUE, results |-> << <<<<"6", ".", "0", "3">>, <<"6", "0", " ", "M", "e", "t", "r", "e", "s">>, {"NR"}>> >>],
      [data |-> TRUE, results |-> << <<<<"4", "1", ".", "0", "0">>, <<"4", "x", "1", "0", "0", " ", "M", "e", "t", "r", "e", "s", " ", "R", "e", "l", "a", "y">>, {"NR"}>>,
                                     <<<<"1", ":", "5", "2", ".", "3", "0">>, <<"8", "0", "0", " ", "M", "e", "t", "r", "e", "s">>, {"NR", "PB"}>>,
                                     <<<<>>, <<"2", "0", "0", " ", "M", "e", "t", "r", "e", "s">>, {}>>,
                                     <<<<"D", "N", "F">>,
                                       <<"1", "0", "0", " ", "M", "e", "t", "r", "e", "s">>, {}>> >>] }

scrape_world_athletics ==
    \E response \in _fetch_with_retry :
        IF ~response.ok
        THEN /\ world_athletics_pbs' = EmptyDict
             /\ UNCHANGED _world_athletics_records
        ELSE \E page \in WorldAthleticsPages :
                IF ~page.data
                THEN /\ world_athletics_pbs' = EmptyDict
                     /\ UNCHANGED _world_athletics_records
                ELSE LET parsed == WorldAthleticsResults(
                                       <<EmptyDict, _world_athletics_records>>,
                                       page.results)
                     IN  /\ world_athletics_pbs' = parsed[1]
                         /\ _world_athletics_records' = parsed[2]

ScrapeWorldAthletics ==
    /\ pc = "scrape_world_athletics"
    /\ scrape_world_athletics
    /\ pc' = "scrape_athletics_malta_records"
    /\ UNCHANGED <<runVars, opentrack_pbs, merged_pbs, _athletics_malta_records,
                   _athletics_malta_positions, widget_rows, recordVars, readmeVars>>

\* the Athletics Malta records page: its table rows
MaltaRecordsPages ==
    { <<>>,
      << <<<<"1">>, <<"6", ".", "0", "2">>, <<"A", ".", " ", "R", "u", "n", "n", "e", "r">>, <<"6", "0", "m">>>> >>,
      << <<<<"1">>, <<"1", "0", ".", "9", "3">>, <<"B", ".", " ", "R", "u", "n", "n", "e", "r">>, <<"1", "0", "0", "m">>>>,
         <<<<"2">>, <<"1", "0", ".", "2", "6">>, <<"C", ".", " ", "R", "u", "n", "n", "e", "r">>, <<"1", "0", "0", " ", "M", "e", "t", "r", "e", "s">>>>,
         <<<<"1">>, <<"4", "1", ".", "5", "0">>, <<"T", "e", "a", "m">>, <<"4", " ", "x", " ", "1", "0", "0", "m">>>> >> }

\* lines 473-526: the attempts (a plain request, the retried request and the
\* browser, on each of the two addresses) are made in turn until the page
\* of one parses to a non-empty table
scrape_athletics_malta_records ==
    \/ _athletics_malta_records' = EmptyDict
    \/ \E page \in MaltaRecordsPages :
           /\ MaltaRecordsRows(EmptyDict, page) # EmptyDict
           /\ _athletics_malta_records' = MaltaRecordsRows(EmptyDict, page)

ScrapeMaltaRecords ==
    /\ pc = "scrape_athletics_malta_records"
    /\ scrape_athletics_malta_records
    /\ pc' = "merge_times"
    /\ UNCHANGED <<runVars, mergeVars, _world_athletics_records,
                   _athletics_malta_positions, widget_rows, recordVars, readmeVars>>

\* main, lines 887-898 with the positions lookup of line 896 left out
MergeTimes_SkipsPositions ==
    /\ pc = "merge_times"
    /\ opentrack_is_dict
    /\ merged_pbs' = merge_times(merge_times(opentrack_pbs, world_athletics_pbs),
                                 FALLBACK_TIMES)
    /\ pc' = "build_widget"
    /\ UNCHANGED <<runVars, opentrack_pbs, world_athletics_pbs, scraperVars,
                   widget_rows, recordVars, readmeVars>>

\* main, lines 887-893
MergeTimes_main ==
    /\ pc = "merge_times"
    /\ IF opentrack_is_dict
       THEN /\ merged_pbs' = merge_times(merge_times(opentrack_pbs, world_athletics_pbs),
                                         FALLBACK_TIMES)
            /\ pc' = "scrape_athletics_malta_positions"
            /\ UNCHANGED exit_status
       ELSE \* source_pbs.items() raises AttributeError, which nothing catches
            /\ pc' = "crashed"
            /\ exit_status' = "1"
            /\ UNCHANGED merged_pbs
    /\ UNCHANGED <<callVars, fetchVars, env_times, playwright_available, opentrack_is_dict, opentrack_gets,
                   opentrack_browser, opentrack_pbs, world_athletics_pbs, scraperVars,
                   widget_rows, recordVars, readmeVars>>

\* re.match(r'^\d+m$', base_event)
IsBaseEvent(base_event) ==
    /\ Len(base_event) >= 2
    /\ base_event[Len(base_event)] = "m"
    /\ \A i \in 1..(Len(base_event) - 1) : base_event[i] \in Digits

\* the ranks found on the filtered ranking pages, by event key
PositionsFound ==
    { EmptyDict,
      Dict({<<k100, 2>>}),
      Dict({<<k60 \o sfxSH, 1>>}),
      Dict({<<k200, 1>>, <<k800, 3>>}) }

\* lines 573-641: a key is looked up when its first word is a distance
scrape_athletics_malta_positions(events) ==
    \E found \in PositionsFound :
        _athletics_malta_positions' =
            [k \in {e \in DOMAIN events \cap DOMAIN found : IsBaseEvent(BaseEvent(e))}
                |-> found[k]]

ScrapeMaltaPositions ==
    /\ pc = "scrape_athletics_malta_positions"
    /\ IF \E e \in DOMAIN merged_pbs : Strip(e) = <<>>
       THEN \* event_key.split()[0] raises IndexError, which nothing catches
            /\ pc' = "crashed"
            /\ exit_status' = "1"
            /\ UNCHANGED _athletics_malta_positions
       ELSE /\ scrape_athletics_malta_positions(merged_pbs)
            /\ pc' = "build_widget"
            /\ UNCHANGED exit_status
    /\ UNCHANGED <<callVars, fetchVars, env_times, playwright_available, opentrack_is_dict, opentrack_gets,
                   opentrack_browser, mergeVars, _world_athletics_records,
                   _athletics_malta_records, widget_rows, recordVars, readmeVars>>

\* main, lines 898-910; the widget text is held as one piece for the table
\* header and one for each row
BuildWidget ==
    /\ pc = "build_widget"
    /\ merged_pbs' = IF DOMAIN merged_pbs = {} THEN FALLBACK_TIMES ELSE merged_pbs
    /\ widget_rows' = build_widget(merged_pbs')
    /\ widget_content' = [i \in 1..(Len(widget_rows') + 1) |-> "w"]
    /\ pc' = "update_readme"
    /\ UNCHANGED <<runVars, opentrack_pbs, world_athletics_pbs, scraperVars, recordVars,
                   readme_exists, readme, readme_before, success, writes, calls>>

\* main, lines 913-923
PatchReadme ==
    /\ pc = "update_readme"
    /\ update_readme
    /\ exit_status' = IF success' THEN "0" ELSE "1"
    /\ pc' = "done"
    /\ UNCHANGED <<callVars, fetchVars, env_times, playwright_available, opentrack_is_dict, opentrack_gets,
                   opentrack_browser, mergeVars, scraperVars, widget_rows, recordVars>>

ReadmeTexts ==
    { <<"x">>,
      <<"x", start_tag, "x", end_tag, "x">>,
      <<start_tag, "x">>,
      <<end_tag, "x", start_tag>> }

Init ==
    /\ pc = "scrape_opentrack"
    /\ FetchIdle
    /\ CallIdle
    /\ env_times \in EnvValues
    /\ playwright_available \in BOOLEAN
    /\ opentrack_is_dict = TRUE
    /\ opentrack_gets = 0
    /\ opentrack_browser = FALSE
    /\ exit_status = "running"
    /\ MergeIdle
    /\ ScraperIdle
    /\ widget_rows = <<>>
    /\ RecordIdle
    /\ readme_exists \in BOOLEAN
    /\ readme \in ReadmeTexts
    /\ readme_exists = FALSE => readme = <<"x">>
    /\ readme_before = <<>>
    /\ widget_content = <<>>
    /\ success = FALSE
    /\ writes = 0
    /\ calls = 0

Next ==
    \/ ScrapeOpenTrack
    \/ ScrapeWorldAthletics
    \/ ScrapeMaltaRecords
    \/ MergeTimes_main
    \/ ScrapeMaltaPositions
    \/ BuildWidget
    \/ PatchReadme

Spec == Init /\ [][Next]_vars

(***************************************************************************)
(* The claims                                                              *)
(***************************************************************************)
\* C1 (as claimed): for every pair of PB tables and every event key of either,
\* the merged table holds the key with a time whose seconds are no more than
\* the seconds of that key in each input holding it, minutes:seconds included.
C1_MergeFastestWins ==
    pc = "merge_returned" =>
        \A k \in DOMAIN opentrack_pbs \cup DOMAIN world_athletics_pbs :
            /\ k \in DOMAIN merged_pbs
            /\ k \in DOMAIN opentrack_pbs =>
                 Val(_time_to_seconds(merged_pbs[k]))
                     <= Val(_time_to_seconds(opentrack_pbs[k]))
            /\ k \in DOMAIN world_athletics_pbs =>
                 Val(_time_to_seconds(merged_pbs[k]))
                     <= Val(_time_to_seconds(world_athletics_pbs[k]))

BothTags(content) ==
    HasChar(content, start_tag) /\ HasChar(content, end_tag)

\* the text before the first START_PB marker
TextBeforeStart(content) == SplitHead(content, start_tag)

\* the text after the last END_PB marker
TextAfterEnd(content) ==
    LET last == CHOOSE i \in 1..Len(content) :
                    /\ content[i] = end_tag
                    /\ \A j \in (i + 1)..Len(content) : content[j] # end_tag
    IN  SubSeq(content, last + 1, Len(content))

\* C3 (as claimed): a second update_readme with the same widget leaves the
\* bytes the first one wrote, for every README.md holding both markers.
C3_Idempotent ==
    (pc = "readme_call" /\ calls = 2 /\ readme_exists /\ BothTags(readme_before))
        => readme = readme_before

\* C4: a missing README.md, or one without the START_PB or the END_PB marker,
\* makes update_readme return False and write nothing: the text is unchanged.
C4_NoWriteOnFailure ==
    (pc = "readme_call" /\ calls > 0
        /\ (~readme_exists \/ ~HasChar(readme_before, start_tag)
                           \/ ~HasChar(readme_before, end_tag)))
        => (success = FALSE /\ writes = 0 /\ readme = readme_before)

C4_Witness ==
    /\ pc = "readme_call"
    /\ calls > 0
    /\ readme_exists
    /\ HasChar(readme_before, end_tag)
    /\ ~HasChar(readme_before, start_tag)
    /\ success = FALSE

\* C5 (as claimed): with both markers present, the text before the START_PB
\* marker and the text after the END_PB marker are the same after the call as
\* before it, and both markers are kept, however often a marker occurs.
C5_OnlyBetweenMarkers ==
    (pc = "readme_call" /\ calls = 1 /\ readme_exists /\ BothTags(readme_before))
        => /\ BothTags(readme)
           /\ TextBeforeStart(readme) = TextBeforeStart(readme_before)
           /\ TextAfterEnd(readme) = TextAfterEnd(readme_before)

\* the rows of the rendered table
Rows == {widget_rows[i] : i \in 1..Len(widget_rows)}

\* the record rules of the annotator for a row: the World Athletics flag on
\* the row's key, the curated record of its base distance, the scraped record
\* of its key (else of its base distance); the last two within the tolerance
\* as lines 745 and 754 evaluate it
FlagRule(key) == key \in DOMAIN _world_athletics_records

CuratedRule(key, time) ==
    /\ BaseEvent(key) \in DOMAIN NATIONAL_RECORDS
    /\ ~IsNone(_time_to_seconds(time))
    /\ LeqPlusTolerance(Val(_time_to_seconds(time)),
                        Val(_time_to_seconds(NATIONAL_RECORDS[BaseEvent(key)])))

ScrapedRule(key, time) ==
    LET held == IF key \in DOMAIN _athletics_malta_records THEN key ELSE BaseEvent(key)
    IN  /\ held \in DOMAIN _athletics_malta_records
        /\ ~IsNone(_time_to_seconds(time))
        /\ LeqPlusTolerance(Val(_time_to_seconds(time)),
                            Val(_time_to_seconds(_athletics_malta_records[held])))

PositiveRank(key) ==
    key \in DOMAIN _athletics_malta_positions /\ _athletics_malta_positions[key] > 0

C9_FlagCoversVariants ==
    pc = "widget_built" =>
        \A row \in Rows :
            (row[1] \in DOMAIN _world_athletics_records
                \/ BaseEvent(row[1]) \in DOMAIN _world_athletics_records)
                => row[3] = StatusNR

\* C9 (amended): a key flagged by the World Athletics parser gives the
\* national-record status to every row with exactly that key.
C9_FlagCoversKey ==
    pc = "widget_built" =>
        \A row \in Rows :
            row[1] \in DOMAIN _world_athletics_records => row[3] = StatusNR

\* a flagged row that no other record rule applies to
C9_Witness ==
    /\ pc = "widget_built"
    /\ \E row \in Rows :
          /\ row[1] \in DOMAIN _world_athletics_records
          /\ ~is_national_record(row[1], row[2])
          /\ row[3] = StatusNR

\* no scraped record is held for the key or for its base distance
NoScrapedRecord(key) ==
    /\ key \notin DOMAIN _athletics_malta_records
    /\ BaseEvent(key) \notin DOMAIN _athletics_malta_records

CuratedHundredths(base) == IF base = k200 THEN Curated200 ELSE Curated300

\* C10: for an event whose base distance has a curated record and with no
\* scraped record, is_national_record is true exactly when the time is at most
\* the curated time plus 0.01s (200m: 21.18s and 21.19s yes, 21.20s no).
C10_CuratedTolerance ==
    (pc = "nr_returned" /\ BaseEvent(nr_event_key) \in {k200, k300}
        /\ NoScrapedRecord(nr_event_key))
        => \A h \in RecordHundredths :
              nr_time_val = FormatSeconds(h) =>
                  (nr_result <=> h <= CuratedHundredths(BaseEvent(nr_event_key)) + 1)

C10_Witness ==
    /\ pc = "nr_returned"
    /\ nr_event_key = k200
    /\ nr_time_val = <<"2", "1", ".", "1", "9", "s">>
    /\ NoScrapedRecord(nr_event_key)
    /\ nr_result = TRUE

(***************************************************************************)
(* Claims on the run of main (Spec)                                        *)
(***************************************************************************)
\* the renderer has been called: merged_pbs is the table it was given
Rendered == pc \in {"update_readme", "done"}

\* C2: in every run of main, whatever each scrape yields, the PB table
\* passed to the renderer is non-empty, and when OpenTrack and World
\* Athletics both yield empty tables it is exactly the fallback table
C2_RenderedTableNonEmpty ==
    Rendered =>
        /\ DOMAIN merged_pbs # {}
        /\ (opentrack_pbs = EmptyDict /\ world_athletics_pbs = EmptyDict)
               => merged_pbs = FALLBACK_TIMES

\* every source came back empty and the fallback table was rendered
C2_Witness ==
    /\ pc = "done"
    /\ opentrack_gets = max_retries
    /\ opentrack_pbs = EmptyDict
    /\ world_athletics_pbs = EmptyDict
    /\ _athletics_malta_records = EmptyDict
    /\ merged_pbs = FALLBACK_TIMES
    /\ Len(widget_rows) = Cardinality(DOMAIN FALLBACK_TIMES)

\* the run has ended, by exit, by return or by an uncaught exception
Ended == pc \in {"done", "crashed"}

\* C6: for every combination of fetch failures, parse failures and override
\* values the run reaches the README patch step, and it ends with an error
\* exit status if and only if the patch step reports failure
C6_OnlyPatchAborts ==
    Ended =>
        /\ calls = 1
        /\ (exit_status = "1") <=> (success = FALSE)
        /\ exit_status \in {"0", "1"}

\* scrape_opentrack has been left, by return or by an exception
OpenTrackLeft == pc # "scrape_opentrack"

OpenTrackFetched == opentrack_gets > 0 \/ opentrack_browser

MaxKeys == 4

OrderKeys ==
    { k60, k100, k200, k200 \o sfxSH, k200 \o sfxIN, k400 \o sfxSH, k1500,
      <<"3", "0", "0", "0", "m">>, <<"1", "0", "0", "0", "0", "m">>, <<"3", "0", "0", "0", "m", " ", "S", "H">> }

InitOrder ==
    /\ RunIdle
    /\ pc = "order_call"
    /\ opentrack_pbs = EmptyDict
    /\ world_athletics_pbs = EmptyDict
    /\ merged_pbs \in Tables(OrderKeys, { <<"5", "9", ".", "9", "9", "s">> }, MaxKeys)
    /\ ScraperIdle
    /\ widget_rows = <<>>
    /\ RecordIdle
    /\ ReadmeIdle

OrderCall ==
    /\ pc = "order_call"
    /\ widget_rows' = build_widget(merged_pbs)
    /\ pc' = "order_built"
    /\ UNCHANGED <<runVars, mergeVars, scraperVars, recordVars, readmeVars>>

NextOrder == OrderCall

SpecOrder == InitOrder /\ [][NextOrder]_vars

\* the event keys of the rendered rows, in row order
RowKeys == [i \in 1..Len(widget_rows) |-> widget_rows[i][1]]

\* the place of a key's distance in the canonical order, and the place
\* after them for the other distances
Slot(key) ==
    LET distance == SplitHead(key, " ")
    IN  IF \E n \in 1..Len(EVENT_ORDER) : EVENT_ORDER[n] = distance
        THEN CHOOSE n \in 1..Len(EVENT_ORDER) : EVENT_ORDER[n] = distance
        ELSE Len(EVENT_ORDER) + 1

\* C11: build_widget emits exactly one row per event key: by canonical
\* distance the base key and then its variants in lexicographic order (the
\* base key, a prefix of its variants, is the first of them), and then the
\* keys of other distances in lexicographic order
C11_RowOrder ==
    pc = "order_built" =>
        /\ Len(widget_rows) = Cardinality(DOMAIN merged_pbs)
        /\ Range(RowKeys) = DOMAIN merged_pbs
        /\ \A i \in 1..Len(widget_rows) : widget_rows[i][2] = merged_pbs[RowKeys[i]]
        /\ \A i, j \in 1..Len(widget_rows) :
              i < j =>
                 \/ Slot(RowKeys[i]) < Slot(RowKeys[j])
                 \/ /\ Slot(RowKeys[i]) = Slot(RowKeys[j])
                    /\ StrLess(RowKeys[i], RowKeys[j])

\* a base key, its variant and two keys outside the canonical order
C11_Witness ==
    /\ pc = "order_built"
    /\ RowKeys = <<k200, k200 \o sfxSH, <<"1", "0", "0", "0", "0", "m">>, <<"3", "0", "0", "0", "m">>>>

(***************************************************************************)
(* Claims on the tables of the run (Spec)                                  *)
(***************************************************************************)
\* the tables the sources produced and the merged table
StoredTables ==
    {opentrack_pbs, world_athletics_pbs, _athletics_malta_records, merged_pbs}

\* the text resolves to a number of seconds that is not negative
ResolvesToSeconds(time_text) ==
    /\ ~IsNone(_time_to_seconds(time_text))
    /\ Val(_time_to_seconds(time_text)) >= 0

\* C12: every time value stored in a table produced by a source (OpenTrack
\* scrape or override, World Athletics, Athletics Malta) and in the merged
\* table resolves to a finite, non-negative number of seconds; text that
\* does not parse as a time is never stored
C12_StoredTimesResolve ==
    \A table \in StoredTables :
        \A key \in DOMAIN table : ResolvesToSeconds(table[key])

\* "{distance}m" with a numeric distance, optionally followed by " SH" or
\* " IN"
WellFormedKey(key) ==
    LET base == SplitHead(key, " ")
    IN  /\ Len(base) >= 2
        /\ base[Len(base)] = "m"
        /\ \A i \in 1..(Len(base) - 1) : base[i] \in Digits
        /\ key \in {base, base \o sfxSH, base \o sfxIN}

\* C13: every event key in every source table and in the merged table has
\* the form "{distance}m" with a numeric distance, optionally followed by
\* exactly " SH" or " IN"; no key of another shape is stored or rendered
C13_KeysWellFormed ==
    /\ \A table \in StoredTables : \A key \in DOMAIN table : WellFormedKey(key)
    /\ \A i \in 1..Len(widget_rows) : WellFormedKey(widget_rows[i][1])

(***************************************************************************)
(* SpecFetch: _fetch_with_retry, one step for each pass of its loop        *)
(***************************************************************************)
\* what session.get(url, timeout=15) and response.raise_for_status() make
\* of one request: a response with a status of the class, or an exception
GetOutcomes == {"2xx", "3xx", "4xx", "5xx", "network_error", "timeout"}

\* lines 169-172: the outcomes that raise a RequestException; get raises it
\* on a network error and on a timeout, raise_for_status on a status from
\* 400 to 599
RaisesRequestException(outcome) ==
    outcome \in {"4xx", "5xx", "network_error", "timeout"}

InitFetch ==
    /\ pc = "fetch"
    /\ env_times = [kind |-> "unset", value |-> EmptyDict]
    /\ playwright_available = FALSE
    /\ opentrack_is_dict = TRUE
    /\ opentrack_gets = 0
    /\ opentrack_browser = FALSE
    /\ exit_status = "running"
    /\ FetchIdle
    /\ CallIdle
    /\ MergeIdle
    /\ ScraperIdle
    /\ widget_rows = <<>>
    /\ RecordIdle
    /\ ReadmeIdle

\* lines 160-176: one pass of the loop
FetchAttempt ==
    /\ pc = "fetch"
    /\ attempt < max_retries
    /\ \E outcome \in GetOutcomes :
          /\ net_log' = net_log \o (IF attempt > 0 THEN <<"sleep">> ELSE <<>>)
                                \o <<outcome>>
          /\ IF ~RaisesRequestException(outcome)
             THEN /\ fetch_result' = "response"
                  /\ pc' = "fetch_returned"
                  /\ UNCHANGED attempt
             ELSE IF attempt = max_retries - 1
             THEN /\ fetch_result' = "none"
                  /\ pc' = "fetch_returned"
                  /\ UNCHANGED attempt
             ELSE /\ attempt' = attempt + 1
                  /\ UNCHANGED <<fetch_result, pc>>
    /\ UNCHANGED <<callVars, env_times, playwright_available, opentrack_is_dict, opentrack_gets,
                   opentrack_browser, exit_status, mergeVars, scraperVars, widget_rows,
                   recordVars, readmeVars>>

NextFetch == FetchAttempt

SpecFetch == InitFetch /\ [][NextFetch]_vars

\* the requests of the log, in order
Requests == SelectSeq(net_log, LAMBDA e : e # "sleep")

\* C14: _fetch_with_retry makes at most 3 GET attempts; it returns the
\* response of the first attempt that succeeds with a 2xx status and makes
\* no attempt after it; it delays before the second and the third attempt
\* only; it returns no content exactly when all 3 attempts fail with a
\* network error or a status that is not 2xx
C14_RetryContract ==
    /\ Len(Requests) <= 3
    /\ net_log # <<>> => net_log[1] # "sleep"
    /\ \A i \in 2..Len(net_log) :
          (net_log[i] # "sleep") <=> (net_log[i - 1] = "sleep")
    /\ \A i \in 1..(Len(Requests) - 1) : Requests[i] # "2xx"
    /\ fetch_result = "response" => Requests[Len(Requests)] = "2xx"
    /\ fetch_result = "none" =>
          /\ Len(Requests) = 3
          /\ \A i \in 1..3 : Requests[i] # "2xx"
    /\ (pc = "fetch_returned" /\ Len(Requests) = 3 /\ \A i \in 1..3 : Requests[i] # "2xx")
          => fetch_result = "none"

(***************************************************************************)
(* SpecChain: the fetches of the three source scrapers, one after another, *)
(* with no override set.  A strategy is "direct" (requests.get), "session" *)
(* (_fetch_with_retry) or "browser" (_fetch_with_playwright); its outcome  *)
(* is "fail" (no page), "empty" (a page that parses to no entry) or        *)
(* "records" (a page that parses to entries).  net_log holds one event for *)
(* each strategy run.                                                      *)
(***************************************************************************)
StrategyOutcomes == {"fail", "empty", "records"}

Event(source, url, strategy, outcome) ==
    [source |-> source, url |-> url, strategy |-> strategy, outcome |-> outcome]

\* scrape_opentrack, lines 237-257: the page of the first strategy that
\* fetched one is parsed, whatever it holds
OpenTrackChain(session, browser) ==
    <<Event("opentrack", 1, "session", session)>>
        \o (IF session = "fail" /\ playwright_available
            THEN <<Event("opentrack", 1, "browser", browser)>>
            ELSE <<>>)

\* scrape_world_athletics, lines 337-340
WorldAthleticsChain(session) == <<Event("world_athletics", 1, "session", session)>>

\* scrape_athletics_malta_records, lines 466-469 and 473-522: the
\* strategies in the order the loop reaches them
MaltaPlan ==
    LET forUrl(url) ==
            << <<url, "direct">>, <<url, "session">> >>
                \o (IF playwright_available THEN << <<url, "browser">> >> ELSE <<>>)
    IN  forUrl(1) \o forUrl(2)

\* lines 490, 504, 517 read as "the page was fetched"
EndsMaltaChain_Fetched(outcome) == outcome # "fail"

\* lines 490, 504, 517: if records: ... return records
EndsMaltaChain(outcome) == outcome = "records"

RECURSIVE MaltaChain(_, _)
MaltaChain(outcomes, i) ==
    IF i > Len(MaltaPlan) THEN <<>>
    ELSE <<Event("malta_records", MaltaPlan[i][1], MaltaPlan[i][2], outcomes[i])>>
            \o (IF EndsMaltaChain(outcomes[i]) THEN <<>>
                ELSE MaltaChain(outcomes, i + 1))

InitChain ==
    /\ pc = "chain_opentrack"
    /\ env_times = [kind |-> "unset", value |-> EmptyDict]
    /\ playwright_available \in BOOLEAN
    /\ opentrack_is_dict = TRUE
    /\ opentrack_gets = 0
    /\ opentrack_browser = FALSE
    /\ exit_status = "running"
    /\ FetchIdle
    /\ CallIdle
    /\ MergeIdle
    /\ ScraperIdle
    /\ widget_rows = <<>>
    /\ RecordIdle
    /\ ReadmeIdle

ChainFrame ==
    UNCHANGED <<callVars, env_times, playwright_available, opentrack_is_dict, opentrack_gets,
                opentrack_browser, exit_status, attempt, fetch_result, mergeVars,
                scraperVars, widget_rows, recordVars, readmeVars>>

ChainOpenTrack ==
    /\ pc = "chain_opentrack"
    /\ \E session, browser \in StrategyOutcomes :
           net_log' = net_log \o OpenTrackChain(session, browser)
    /\ pc' = "chain_world_athletics"
    /\ ChainFrame

ChainWorldAthletics ==
    /\ pc = "chain_world_athletics"
    /\ \E session \in StrategyOutcomes : net_log' = net_log \o WorldAthleticsChain(session)
    /\ pc' = "chain_malta_records"
    /\ ChainFrame

ChainMaltaRecords ==
    /\ pc = "chain_malta_records"
    /\ \E outcomes \in [1..Len(MaltaPlan) -> StrategyOutcomes] :
           net_log' = net_log \o MaltaChain(outcomes, 1)
    /\ pc' = "chain_done"
    /\ ChainFrame

NextChain == ChainOpenTrack \/ ChainWorldAthletics \/ ChainMaltaRecords

SpecChain == InitChain /\ [][NextChain]_vars

\* the events of one source, and of one of its addresses, in order
EventsOf(source) == SelectSeq(net_log, LAMBDA e : e.source = source)

EventsAt(source, url) == SelectSeq(net_log, LAMBDA e : e.source = source /\ e.url = url)

\* the strategies of a sequence of events
Strategies(events) == [i \in 1..Len(events) |-> events[i].strategy]

ChainSources == {"opentrack", "world_athletics", "malta_records"}

\* the scraper of the source has returned
ChainLeft(source) ==
    CASE source = "opentrack" -> pc # "chain_opentrack"
      [] source = "world_athletics" -> pc \in {"chain_malta_records", "chain_done"}
      [] OTHER -> pc = "chain_done"

\* C15 (as claimed): each of the three fetchers tries direct GET, session
\* GET with retry and browser automation in that order, stops at the first
\* that succeeds, and runs the browser only when the direct GET and the
\* session GET both failed to fetch and the browser is available
C15_UniformChain ==
    \A source \in ChainSources :
        ChainLeft(source) =>
            \A url \in {1, 2} :
                LET events == EventsAt(source, url)
                IN  /\ events # <<>> =>
                          Strategies(events) \in { <<"direct">>, <<"direct", "session">>,
                                                   <<"direct", "session", "browser">> }
                    /\ \A i \in 1..(Len(events) - 1) : events[i].outcome = "fail"
                    /\ Len(events) = 3 => playwright_available

\* C15 (amended): OpenTrack runs the session GET and then, only when it
\* fetched nothing and the browser is available, the browser; World
\* Athletics runs the session GET alone; Athletics Malta records runs, on
\* each of its two addresses in turn, direct GET, session GET and (when
\* available) the browser, and stops at the first page that parses to
\* records, so that a later strategy runs exactly when no earlier one gave
\* records
C15_ChainPerSource ==
    /\ ChainLeft("opentrack") =>
          LET events == EventsOf("opentrack")
          IN  /\ Strategies(events) \in { <<"session">>, <<"session", "browser">> }
              /\ Len(events) = 2 <=>
                     (events[1].outcome = "fail" /\ playwright_available)
    /\ ChainLeft("world_athletics") =>
          Strategies(EventsOf("world_athletics")) = <<"session">>
    /\ ChainLeft("malta_records") =>
          LET events == EventsOf("malta_records")
              whole  == IF playwright_available
                        THEN <<"direct", "session", "browser">>
                        ELSE <<"direct", "session">>
          IN  /\ \E n \in 1..Len(whole \o whole) :
                     /\ Strategies(events) = SubSeq(whole \o whole, 1, n)
                     /\ \A i \in 1..n : events[i].url = (IF i <= Len(whole) THEN 1 ELSE 2)
              /\ \A i \in 1..(Len(events) - 1) : events[i].outcome # "records"
              /\ Len(events) < Len(whole \o whole) =>
                     events[Len(events)].outcome = "records"

\* Athletics Malta fetched pages with no record by direct GET and by session
\* GET, then ran the browser and stopped at its page; OpenTrack fell back
\* to the browser
C15_Witness ==
    /\ pc = "chain_done"
    /\ Strategies(EventsOf("opentrack")) = <<"session", "browser">>
    /\ LET events == EventsOf("malta_records")
       IN  /\ Len(events) = 3
           /\ events[1].outcome = "empty"
           /\ events[2].outcome = "fail"
           /\ events[3] = Event("malta_records", 1, "browser", "records")

(***************************************************************************)
(* Claims on the order of the steps of the run (Spec)                      *)
(***************************************************************************)
\* the order of the steps as claimed: the four fetches, then merge,
\* annotate and render, patch
ClaimedOrder ==
    << "scrape_opentrack", "scrape_world_athletics", "scrape_athletics_malta_records",
       "scrape_athletics_malta_positions", "merge_times", "build_widget",
       "update_readme", "done" >>

\* the order with the merge before the positions lookup
MergeFirstOrder ==
    << "scrape_opentrack", "scrape_world_athletics", "scrape_athletics_malta_records",
       "merge_times", "scrape_athletics_malta_positions", "build_widget",
       "update_readme", "done" >>

PlaceIn(order, step) == CHOOSE n \in 1..Len(order) : order[n] = step

\* the run moves from a step to the next step of the order, or ends by an
\* uncaught exception
FollowsOrder(order) ==
    pc' # pc => \/ pc' = "crashed"
                \/ PlaceIn(order, pc') = PlaceIn(order, pc) + 1

\* C16 (as claimed): the steps happen one after another in the order fetch
\* OpenTrack, fetch World Athletics, fetch Athletics Malta records, fetch
\* Athletics Malta positions, and only then merge, annotate, render, patch
C16_FetchesBeforeMerge == [][FollowsOrder(ClaimedOrder)]_vars

\* C16 (amended): the steps happen one after another in the order fetch
\* OpenTrack, fetch World Athletics, fetch Athletics Malta records, merge,
\* fetch Athletics Malta positions (for the keys of the merged table),
\* annotate and render, patch
C16_MergeBeforePositions == [][FollowsOrder(MergeFirstOrder)]_vars

\* a position was looked up for a key that only the merge with the fallback
\* table brought in, and the run went on to the patch
C16_Witness ==
    /\ pc = "done"
    /\ k60 \o sfxSH \in DOMAIN _athletics_malta_positions
    /\ k60 \o sfxSH \notin DOMAIN opentrack_pbs \cup DOMAIN world_athletics_pbs
    /\ calls = 1

(***************************************************************************)
(* SpecPositions: scrape_athletics_malta_positions called on a table of    *)
(* events; net_log holds its requests and its sleeps                       *)
(***************************************************************************)
MaxEvents == 3

PositionKeys == {k60, k60 \o sfxSH, k100, <<"2", "0", "0">>}

\* what becomes of the request for one event: the request fails (status not
\* 200 or no text; a network error), the page raises while it is searched,
\* the page holds no row of the athlete, the page holds the rank
LookupOutcomes == {"http_error", "network_error", "parse_error", "no_match", "rank"}

\* lines 605-606 and 633-634: the outcomes that leave the pass by continue
SkipsPacing(outcome) == outcome \in {"http_error", "network_error", "parse_error"}

\* lines 573-637 for the keys of the sequence, in order
RECURSIVE PositionsLog(_, _)
PositionsLog(keys, outcomes) ==
    IF keys = <<>> THEN <<>>
    ELSE LET event_key == Head(keys)
             request   == [kind |-> "get", key |-> event_key,
                           outcome |-> outcomes[event_key]]
             pacing    == [kind |-> "sleep", key |-> event_key, outcome |-> ""]
         IN  (IF ~IsBaseEvent(FirstWord(event_key)) THEN <<>>
              ELSE IF SkipsPacing(outcomes[event_key]) THEN <<request>>
              ELSE <<request, pacing>>)
                 \o PositionsLog(Tail(keys), outcomes)

InitPositions ==
    /\ pc = "positions_call"
    /\ env_times = [kind |-> "unset", value |-> EmptyDict]
    /\ playwright_available = FALSE
    /\ opentrack_is_dict = TRUE
    /\ opentrack_gets = 0
    /\ opentrack_browser = FALSE
    /\ exit_status = "running"
    /\ FetchIdle
    /\ CallIdle
    /\ opentrack_pbs = EmptyDict
    /\ world_athletics_pbs = EmptyDict
    /\ merged_pbs \in Tables(PositionKeys, { <<"5", "9", ".", "9", "9", "s">> }, MaxEvents)
    /\ ScraperIdle
    /\ widget_rows = <<>>
    /\ RecordIdle
    /\ ReadmeIdle

PositionsCall ==
    /\ pc = "positions_call"
    /\ \E outcomes \in [DOMAIN merged_pbs -> LookupOutcomes] :
          /\ net_log' = PositionsLog(Sorted(DOMAIN merged_pbs), outcomes)
          /\ _athletics_malta_positions' =
                 [k \in {e \in DOMAIN merged_pbs :
                            IsBaseEvent(FirstWord(e)) /\ outcomes[e] = "rank"} |-> 1]
    /\ pc' = "positions_returned"
    /\ UNCHANGED <<callVars, env_times, playwright_available, opentrack_is_dict, opentrack_gets,
                   opentrack_browser, exit_status, attempt, fetch_result, mergeVars,
                   _world_athletics_records, _athletics_malta_records, widget_rows,
                   recordVars, readmeVars>>

NextPositions == PositionsCall

SpecPositions == InitPositions /\ [][NextPositions]_vars

\* C17: in the ranking lookup, between any two consecutive ranking requests
\* there is a pacing delay, whatever the outcome (success, HTTP failure,
\* network error, parse error, no matching row) of the earlier request
C17_PacedRequests ==
    pc = "positions_returned" =>
        \A i \in 1..(Len(net_log) - 1) :
            net_log[i].kind = "get" => net_log[i + 1].kind = "sleep"

(***************************************************************************)
(* SpecMaltaEvent: _event_from_athletics_malta called on an event text     *)
(* made of a distance, a unit and what follows it                          *)
(***************************************************************************)
\* the state of a call of a function on an argument: the other variables
\* at rest
CallInit ==
    /\ env_times = [kind |-> "unset", value |-> EmptyDict]
    /\ playwright_available = FALSE
    /\ opentrack_is_dict = TRUE
    /\ opentrack_gets = 0
    /\ opentrack_browser = FALSE
    /\ exit_status = "running"
    /\ FetchIdle
    /\ call_result = <<>>
    /\ MergeIdle
    /\ ScraperIdle
    /\ widget_rows = <<>>
    /\ RecordIdle
    /\ ReadmeIdle

CallFrame ==
    UNCHANGED <<call_arg, env_times, playwright_available, opentrack_is_dict,
                opentrack_gets, opentrack_browser, exit_status, fetchVars, mergeVars,
                scraperVars, widget_rows, recordVars, readmeVars>>

MaltaDistances == { <<"6", "0">>, <<"2", "0", "0">>, <<"5", "0", "0", "0">> }

MaltaUnits ==
    { <<"m">>, <<" ", "m">>, <<" ", "m", "e", "t", "r", "e">>, <<" ", "m", "e", "t", "r", "e", "s">>, <<" ", "M", "e", "t", "r", "e", "s">>, <<" ", "x", " ", "1", "0", "0", "m">>, <<"x", "1", "0", "0", "m">> }

MaltaTails ==
    { <<>>, <<" ", "s", "h", "o", "r", "t", " ", "t", "r", "a", "c", "k">>, <<" ", "I", "n", "d", "o", "o", "r">>, <<" ", "r", "e", "l", "a", "y">>, <<" ", "h", "u", "r", "d", "l", "e", "s">>, <<" ", "w", "a", "l", "k">> }

InitMaltaEvent ==
    /\ pc = "malta_event_call"
    /\ call_arg \in [distance : MaltaDistances, unit : MaltaUnits, tail : MaltaTails]
    /\ CallInit

MaltaEventCall ==
    /\ pc = "malta_event_call"
    /\ call_result' = _event_from_athletics_malta(
                          call_arg.distance \o call_arg.unit \o call_arg.tail)
    /\ pc' = "malta_event_returned"
    /\ CallFrame

NextMaltaEvent == MaltaEventCall

SpecMaltaEvent == InitMaltaEvent /\ [][NextMaltaEvent]_vars

\* C18: the Athletics Malta normalizer accepts "{digits}m" and "{digits}
\* metre(s)" (a distance of TARGET_EVENTS), and appends " SH" when the text
\* also holds "short track" or "indoor"; a text with "relay", "hurdle",
\* "walk" or an N x Nm pattern gives no key
C18_MaltaEventKey ==
    pc = "malta_event_returned" =>
        LET refused == \/ call_arg.tail \in { <<" ", "r", "e", "l", "a", "y">>, <<" ", "h", "u", "r", "d", "l", "e", "s">>, <<" ", "w", "a", "l", "k">> }
                       \/ call_arg.unit \in { <<" ", "x", " ", "1", "0", "0", "m">>, <<"x", "1", "0", "0", "m">> }
            indoors == call_arg.tail \in { <<" ", "s", "h", "o", "r", "t", " ", "t", "r", "a", "c", "k">>, <<" ", "I", "n", "d", "o", "o", "r">> }
            known   == \E n \in 1..Len(TARGET_EVENTS) : TARGET_EVENTS[n] = call_arg.distance
        IN  IF refused THEN call_result = None
            ELSE known =>
                    call_result = Some(call_arg.distance \o <<"m">>
                                          \o (IF indoors THEN sfxSH ELSE <<>>))

(***************************************************************************)
(* SpecDiscipline: _parse_world_athletics_event called on a discipline     *)
(* made of a distance, a unit and what follows it                          *)
(***************************************************************************)
DisciplineDistances == { <<"1", "0", "0">>, <<"2", "0", "0">>, <<"1", "2", "0", "0">>, <<"3", "0", "0", "0">>, <<"4", "x", "1", "0", "0">> }

DisciplineUnits == { <<" ", "M", "e", "t", "r", "e", "s">>, <<" ", "m", "e", "t", "r", "e", "s">>, <<" ", "M", "e", "t", "r", "e">>, <<" ", "m", "e", "t", "r", "e">> }

DisciplineTails ==
    { <<>>, <<" ", "S", "h", "o", "r", "t", " ", "T", "r", "a", "c", "k">>, <<" ", "I", "n", "d", "o", "o", "r">>, <<" ", "I", "n", "d", "o", "o", "r", " ", "S", "h", "o", "r", "t", " ", "T", "r", "a", "c", "k">>, <<" ", "R", "e", "l", "a", "y">>, <<" ", "H", "u", "r", "d", "l", "e", "s">> }

InitDiscipline ==
    /\ pc = "discipline_call"
    /\ call_arg \in [distance : DisciplineDistances, unit : DisciplineUnits,
                     tail : DisciplineTails]
    /\ CallInit

DisciplineCall ==
    /\ pc = "discipline_call"
    /\ call_result' = _parse_world_athletics_event(
                          call_arg.distance \o call_arg.unit \o call_arg.tail)
    /\ pc' = "discipline_returned"
    /\ CallFrame

NextDiscipline == DisciplineCall

SpecDiscipline == InitDiscipline /\ [][NextDiscipline]_vars

\* the number a text ends with
RECURSIVE TrailingNumber(_)
TrailingNumber(text) ==
    IF text = <<>> \/ text[Len(text)] \notin Digits THEN <<>>
    ELSE Append(TrailingNumber(SubSeq(text, 1, Len(text) - 1)), text[Len(text)])

\* C19: the World Athletics discipline parser gives no key for a discipline
\* with "relay"; for a discipline with "{distance} metre" it gives
\* "{distance}m" with " SH" when the text holds "short track", else " IN"
\* when it holds "indoor", else no suffix, and never both
C19_DisciplineKey ==
    pc = "discipline_returned" =>
        IF call_arg.tail = <<" ", "R", "e", "l", "a", "y">> THEN call_result = None
        ELSE call_result =
                 Some(TrailingNumber(call_arg.distance) \o <<"m">>
                         \o (IF call_arg.tail \in { <<" ", "S", "h", "o", "r", "t", " ", "T", "r", "a", "c", "k">>, <<" ", "I", "n", "d", "o", "o", "r", " ", "S", "h", "o", "r", "t", " ", "T", "r", "a", "c", "k">> }
                             THEN sfxSH
                             ELSE IF call_arg.tail = <<" ", "I", "n", "d", "o", "o", "r">> THEN sfxIN
                             ELSE <<>>))

(***************************************************************************)
(* SpecOrdinal: the "{ordinal} All-Time" status built for one rank         *)
(***************************************************************************)
MaxOrdinal == 124

InitOrdinal ==
    /\ pc = "ordinal_call"
    /\ call_arg \in 1..MaxOrdinal
    /\ CallInit

OrdinalCall ==
    /\ pc = "ordinal_call"
    /\ call_result' = StatusAllTime(call_arg)
    /\ pc' = "ordinal_returned"
    /\ CallFrame

NextOrdinal == OrdinalCall

SpecOrdinal == InitOrdinal /\ [][NextOrdinal]_vars

\* C20: for every positive rank the ordinal of the "{ordinal} All-Time"
\* status ends in "th" when the rank's last two digits are 11, 12 or 13,
\* otherwise in "st", "nd" or "rd" when its last digit is 1, 2 or 3, and in
\* "th" in every other case
C20_OrdinalSuffix ==
    pc = "ordinal_returned" =>
        /\ call_result[1] = "All-Time"
        /\ call_result[2] = call_arg
        /\ call_result[3] =
               IF call_arg % 100 \in {11, 12, 13} THEN "th"
               ELSE CASE call_arg % 10 = 1 -> "st"
                      [] call_arg % 10 = 2 -> "nd"
                      [] call_arg % 10 = 3 -> "rd"
                      [] OTHER -> "th"

\* rank 111, whose last digit is 1 and last two digits 11, has its status
C20_Witness ==
    /\ pc = "ordinal_returned"
    /\ call_arg = 111
    /\ call_result = <<"All-Time", 111, "th">>

====
